---- MODULE Spec2Model ----
(***************************************************************************)
(* Model of bbanalyze (src/Project_07_Baseball/src/bbanalyze.py): one call *)
(* of bbanalyze(filename) on a CSV file, one action per numbered section   *)
(* of the function.                                                        *)
(*                                                                         *)
(* Representation.                                                         *)
(*  - A numeric cell is a record [tag, n, d]: a finite value n/d in lowest *)
(*    terms (tag "num"), the float NaN (tag "nan"), +-infinity (tag "inf", *)
(*    sign in n), or a token read_csv could not parse (tag "str").         *)
(*    float64 division of the small integers used here is exact up to      *)
(*    rounding that preserves equality and order, so a quotient is kept    *)
(*    as the rational it rounds.                                           *)
(*  - A cell of a text column (id, team, lg) is a string; NA stands for    *)
(*    the NaN read_csv stores for an empty field.                          *)
(*  - A table is a sequence of rows (records keyed by column name) and the *)
(*    set of its column names.                                             *)
(***************************************************************************)
EXTENDS Integers, Sequences, FiniteSets, TLC

VARIABLES pc, err, df, objcols, summary, bb, orig_cols, nl, al,
          career, records, result

vars == <<pc, err, df, objcols, summary, bb, orig_cols, nl, al,
          career, records, result>>

\* Largest number of data rows of an input file.
MaxRows == 2

\* career["ab"] >= 50
MinCareerAB == 50

----------------------------------------------------------------------------
(* float64 cells *)

NaN == [tag |-> "nan", n |-> 0, d |-> 0]
PosInf == [tag |-> "inf", n |-> 1, d |-> 0]
StrCell == [tag |-> "str", n |-> 0, d |-> 0]

Abs(x) == IF x < 0 THEN -x ELSE x
Sgn(x) == IF x < 0 THEN -1 ELSE 1

RECURSIVE GCD(_, _)
GCD(a, b) == IF b = 0 THEN a ELSE GCD(b, a % b)

\* the finite value n/d (d > 0), in lowest terms
Fin(n, d) ==
    LET g == GCD(Abs(n), d)
    IN  [tag |-> "num", n |-> n \div g, d |-> d \div g]

Num(k) == Fin(k, 1)

IsNaN(v) == v.tag = "nan"
IsFinite(v) == v.tag = "num"
IsInf(v) == v.tag = "inf"

\* float addition
Add(a, b) ==
    IF IsNaN(a) \/ IsNaN(b) THEN NaN
    ELSE IF IsInf(a) /\ IsInf(b) THEN (IF a.n = b.n THEN a ELSE NaN)
    ELSE IF IsInf(a) THEN a
    ELSE IF IsInf(b) THEN b
    ELSE Fin(a.n * b.d + b.n * a.d, a.d * b.d)

\* float division under np.errstate(divide="ignore", invalid="ignore")
Div(a, b) ==
    IF IsNaN(a) \/ IsNaN(b) THEN NaN
    ELSE IF IsInf(a) THEN (IF IsInf(b) THEN NaN
                           ELSE [tag |-> "inf", n |-> a.n * Sgn(b.n), d |-> 0])
    ELSE IF IsInf(b) THEN Num(0)
    ELSE IF b.n = 0 THEN (IF a.n = 0 THEN NaN
                          ELSE [tag |-> "inf", n |-> Sgn(a.n), d |-> 0])
    ELSE Fin(a.n * b.d * Sgn(b.n), a.d * Abs(b.n))

\* a < b on non-NaN floats
LtF(a, b) ==
    IF a = b THEN FALSE
    ELSE IF IsInf(a) THEN a.n < 0
    ELSE IF IsInf(b) THEN b.n > 0
    ELSE a.n * b.d < b.n * a.d

\* a >= b as numpy compares: FALSE when either side is NaN
GeF(a, b) == ~IsNaN(a) /\ ~IsNaN(b) /\ ~LtF(a, b)

----------------------------------------------------------------------------
(* columns *)

NA == "<NA>"
NoId == "<None>"

TextCols == {"id", "team", "lg"}
StatCols == {"g", "ab", "h", "hr", "rbi", "sb", "so", "bb", "hbp", "sh", "sf"}
NumCols == StatCols \cup {"year"}
Schema == TextCols \cup NumCols

IsNA(c, v) == IF c \in TextCols THEN v = NA ELSE IsNaN(v)

\* columns.astype(str).str.lower() on the header names that occur
Lower(c) == IF c = "Index" THEN "index" ELSE c

\* columns.astype(str).str.match(r"^Unnamed:")
MatchesUnnamed(c) == c \in {"Unnamed: 0", "Unnamed: 0.1"}

\* the accidental index columns of a header
bad_idx_cols(header) == {c \in header : MatchesUnnamed(c) \/ Lower(c) = "index"}

----------------------------------------------------------------------------
(* input files *)

Line(g, ab, h, hr, rbi, sb, so, w, hbp, sh, sf) ==
    [g |-> Num(g), ab |-> Num(ab), h |-> Num(h), hr |-> Num(hr),
     rbi |-> Num(rbi), sb |-> Num(sb), so |-> Num(so), bb |-> Num(w),
     hbp |-> Num(hbp), sh |-> Num(sh), sf |-> Num(sf)]

\* season batting lines: no plate appearance, a sacrifice fly only, a hit
\* scored without an at-bat, four ordinary seasons and a short strong one
StatLines ==
    { Line(1, 0, 0, 0, 0, 0, 0, 0, 0, 0, 0),
      Line(1, 0, 0, 0, 1, 0, 0, 0, 0, 0, 1),
      Line(2, 0, 1, 0, 0, 0, 0, 0, 0, 0, 0),
      Line(10, 30, 10, 5, 8, 2, 7, 5, 1, 1, 2),
      Line(12, 30, 12, 0, 3, 0, 9, 0, 0, 0, 0),
      Line(20, 60, 20, 5, 9, 4, 14, 10, 2, 0, 1),
      Line(25, 60, 15, 10, 20, 1, 30, 3, 0, 2, 0),
      Line(8, 20, 19, 9, 15, 9, 1, 9, 3, 1, 1) }

TypicalLine == Line(20, 60, 20, 5, 9, 4, 14, 10, 2, 0, 1)

\* player ids, in the order Python compares the strings
IdOrder == <<"p1", "p3">>
Ids == {IdOrder[i] : i \in 1..Len(IdOrder)}

Row(id, team, lg, year, line) ==
    [id |-> id, team |-> team, lg |-> lg, year |-> year] @@ line

\* rows with every field present and parseable
CleanRows == {Row(i, "CHN", "NL", Num(1990), l) : i \in Ids, l \in StatLines}

\* rows of the other league, of a third league, of a team that changed
\* league, and with the league field left empty
LeagueRows ==
    {Row(i, "BOS", "AL", Num(1991), TypicalLine) : i \in Ids}
    \cup {Row(i, "CHF", "FL", Num(1914), TypicalLine) : i \in Ids}
    \cup {Row(i, "BOS", "NL", Num(1990), TypicalLine) : i \in Ids}
    \cup {Row(i, "TRO", NA, Num(1871), TypicalLine) : i \in Ids}

\* rows with one field empty or unparseable
DefectRows ==
    {[Row(i, "CHN", "NL", Num(1990), TypicalLine) EXCEPT !.h = NaN] : i \in Ids}
    \cup {[Row(i, "CHN", "NL", Num(1990), TypicalLine) EXCEPT !.h = StrCell] : i \in Ids}
    \cup {Row(i, "CHN", "NL", NaN, TypicalLine) : i \in Ids}

RowChoices == CleanRows \cup LeagueRows \cup DefectRows

HeaderRows ==
    { Row("p1", "CHN", "NL", Num(1990), TypicalLine),
      Row("p3", "BOS", "AL", Num(1991), Line(10, 30, 10, 5, 8, 2, 7, 5, 1, 1, 2)) }

\* headers with an index column left by to_csv, and with a column missing
OddHeaders ==
    { Schema \cup {"Unnamed: 0"}, Schema \cup {"Index"},
      Schema \ {"year"}, Schema \ {"sf"} }

Tables(rows) == UNION {[1..k -> rows] : k \in 0..MaxRows}

Files ==
    {[header |-> Schema, rows |-> t] : t \in Tables(RowChoices)}
    \cup {[header |-> hd, rows |-> t] : hd \in OddHeaders, t \in Tables(HeaderRows)}

----------------------------------------------------------------------------
(* pandas operations *)

Range(s) == {s[i] : i \in 1..Len(s)}

\* dropna(how="all"): only the rows with nothing but NaN are dropped
RECURSIVE dropna_HowAll(_, _)
dropna_HowAll(rows, cols) ==
    IF rows = <<>> THEN <<>>
    ELSE LET r == Head(rows)
             rest == dropna_HowAll(Tail(rows), cols)
         IN  IF \A c \in cols \cap Schema : IsNA(c, r[c]) THEN rest ELSE <<r>> \o rest

\* DataFrame.dropna(): the rows with no NaN in any column, in order
RECURSIVE dropna(_, _)
dropna(rows, cols) ==
    IF rows = <<>> THEN <<>>
    ELSE LET r == Head(rows)
             rest == dropna(Tail(rows), cols)
         IN  IF \E c \in cols \cap Schema : IsNA(c, r[c]) THEN rest ELSE <<r>> \o rest

\* frame[cols].isna().any().any()
isna_any(rows, cols) == \E i \in 1..Len(rows) : \E c \in cols : IsNA(c, rows[i][c])

\* Series.nunique() of a text column: distinct values, NaN not counted
nunique(rows, c) == Cardinality({rows[i][c] : i \in 1..Len(rows)} \ {NA})

\* the finite cells of a numeric column
FiniteCells(rows, c) == {rows[i][c] : i \in {j \in 1..Len(rows) : IsFinite(rows[j][c])}}

\* Series.min() / Series.max(), skipping NaN; NaN when nothing is left
SeriesMin(rows, c) ==
    LET vs == FiniteCells(rows, c)
    IN  IF vs = {} THEN NaN ELSE CHOOSE v \in vs : \A w \in vs : ~LtF(w, v)

SeriesMax(rows, c) ==
    LET vs == FiniteCells(rows, c)
    IN  IF vs = {} THEN NaN ELSE CHOOSE v \in vs : \A w \in vs : ~LtF(v, w)

\* Series.astype(str) of one cell of lg: object dtype turns NaN into the
\* text "nan"; the string dtype of pandas 3 keeps it missing
astype_str(v, keepsNA) == IF v = NA THEN (IF keepsNA THEN NA ELSE "nan") ELSE v

\* Series.replace("", np.nan) of one cell
replace_empty(v) == IF v = "" THEN NA ELSE v

\* lg_ser.dropna().nunique()
league_count(rows, keepsNA) ==
    Cardinality({replace_empty(astype_str(rows[i].lg, keepsNA)) : i \in 1..Len(rows)} \ {NA})

\* pd.to_numeric(x, errors="coerce").astype(float) of one cell
to_numeric(v) == IF v.tag = "str" THEN NaN ELSE v

\* _safe_div with the non-finite results left as they are
RECURSIVE _safe_div_Unchecked(_, _)
_safe_div_Unchecked(num, den) ==
    IF num = <<>> THEN <<>>
    ELSE <<Div(to_numeric(Head(num)), to_numeric(Head(den)))>>
         \o _safe_div_Unchecked(Tail(num), Tail(den))

\* _safe_div on two Series of equal length, element by element
RECURSIVE _safe_div(_, _)
_safe_div(num, den) ==
    IF num = <<>> THEN <<>>
    ELSE LET out == Div(to_numeric(Head(num)), to_numeric(Head(den)))
         IN  <<IF ~IsFinite(out) THEN NaN ELSE out>> \o _safe_div(Tail(num), Tail(den))

\* r[c1] + r[c2] + ... in one row, left to right
RECURSIVE SumCells(_, _)
SumCells(r, cs) ==
    IF Len(cs) = 1 THEN r[cs[1]]
    ELSE Add(SumCells(r, SubSeq(cs, 1, Len(cs) - 1)), r[cs[Len(cs)]])

\* the Series frame[c1] + frame[c2] + ...
RECURSIVE ColSum(_, _)
ColSum(rows, cs) ==
    IF rows = <<>> THEN <<>>
    ELSE <<SumCells(Head(rows), cs)>> \o ColSum(Tail(rows), cs)

\* frame[name] = series, for several names at once
RECURSIVE SetCols(_, _)
SetCols(rows, series) ==
    IF rows = <<>> THEN <<>>
    ELSE <<Head(rows) @@ [c \in DOMAIN series |-> Head(series[c])]>>
         \o SetCols(Tail(rows), [c \in DOMAIN series |-> Tail(series[c])])

ObpNum == <<"h", "bb", "hbp">>
ObpDen == <<"ab", "bb", "hbp">>
PabNum == <<"h", "bb", "hbp", "sf", "sh">>
PabDen == <<"ab", "bb", "hbp", "sf", "sh">>

\* bb["obp"] = ..., bb["pab"] = ...
AddRowRates(rows) ==
    SetCols(rows, [obp |-> _safe_div(ColSum(rows, ObpNum), ColSum(rows, ObpDen)),
                   pab |-> _safe_div(ColSum(rows, PabNum), ColSum(rows, PabDen))])

\* str + int on a non-empty frame: the addends mix object and numeric columns
MixedDtype(cs, obj) == (Range(cs) \cap obj # {}) /\ (Range(cs) \ obj # {})

\* a subset that takes every row not of the other league
LeagueSubset_NotOther(b, tag) ==
    LET other == IF tag = "NL" THEN "AL" ELSE "NL"
        dat == SelectSeq(b.rows, LAMBDA r : r.lg # other)
    IN  [dat |-> [columns |-> b.columns, rows |-> dat],
         players |-> nunique(dat, "id"),
         teams |-> nunique(dat, "team")]

\* bb.loc[bb["lg"] == tag] with its distinct players and teams
LeagueSubset(b, tag) ==
    LET dat == SelectSeq(b.rows, LAMBDA r : r.lg = tag)
    IN  [dat |-> [columns |-> b.columns, rows |-> dat],
         players |-> nunique(dat, "id"),
         teams |-> nunique(dat, "team")]

----------------------------------------------------------------------------
(* career totals *)

Pos(id) == CHOOSE i \in 1..Len(IdOrder) : IdOrder[i] = id
IdLt(a, b) == Pos(a) < Pos(b)

RECURSIVE SumSeries(_)
SumSeries(s) == IF s = <<>> THEN Num(0) ELSE Add(Head(s), SumSeries(Tail(s)))

\* one row of bb.groupby("id").agg(sum): the sums over the rows of one player
GroupSum(rows, id) ==
    LET grp == SelectSeq(rows, LAMBDA r : r.id = id)
    IN  [c \in StatCols |-> SumSeries([i \in 1..Len(grp) |-> grp[i][c]])] @@ ("id" :> id)

\* bb.groupby("id", as_index=True).agg(agg_cols).astype(float): one row per
\* id present, in sorted id order
RECURSIVE GroupByFrom(_, _)
GroupByFrom(rows, k) ==
    IF k > Len(IdOrder) THEN <<>>
    ELSE IF \E i \in 1..Len(rows) : rows[i].id = IdOrder[k]
         THEN <<GroupSum(rows, IdOrder[k])>> \o GroupByFrom(rows, k + 1)
         ELSE GroupByFrom(rows, k + 1)

groupby_sum(rows) == GroupByFrom(rows, 1)

\* the filter computed and its result not kept
QualifyingRows_Unfiltered(rows) == rows

\* career[career["ab"] >= 50]
QualifyingRows(rows) == SelectSeq(rows, LAMBDA r : GeF(r.ab, Num(MinCareerAB)))

CareerTotalsOf(rows) == QualifyingRows(groupby_sum(rows))

SopaDen == <<"ab", "bb", "hbp", "sh", "sf">>

\* career rates with sopa over the obp denominator, the sacrifices left out
AddCareerRates_SopaNoSacrifices(rows) ==
    LET Rate(ns, ds) == _safe_div(ColSum(rows, ns), ColSum(rows, ds))
    IN  SetCols(rows, [obp |-> Rate(ObpNum, ObpDen),
                       pab |-> Rate(PabNum, PabDen),
                       hrp |-> Rate(<<"hr">>, <<"ab">>),
                       hp |-> Rate(<<"h">>, <<"ab">>),
                       sbp |-> Rate(<<"sb">>, <<"ab">>),
                       sop |-> Rate(<<"so">>, <<"ab">>),
                       sopa |-> Rate(<<"so">>, ObpDen),
                       bbp |-> Rate(<<"bb">>, <<"ab">>)])

\* the eight career rate columns, each computed from the summed columns
AddCareerRates(rows) ==
    LET Rate(ns, ds) == _safe_div(ColSum(rows, ns), ColSum(rows, ds))
    IN  SetCols(rows, [obp |-> Rate(ObpNum, ObpDen),
                       pab |-> Rate(PabNum, PabDen),
                       hrp |-> Rate(<<"hr">>, <<"ab">>),
                       hp |-> Rate(<<"h">>, <<"ab">>),
                       sbp |-> Rate(<<"sb">>, <<"ab">>),
                       sop |-> Rate(<<"so">>, <<"ab">>),
                       sopa |-> Rate(<<"so">>, SopaDen),
                       bbp |-> Rate(<<"bb">>, <<"ab">>)])

RateCols == {"obp", "pab", "hrp", "hp", "sbp", "sop", "sopa", "bbp"}

\* career.replace([np.inf, -np.inf], np.nan, inplace=True)
RECURSIVE replace_inf(_)
replace_inf(rows) ==
    IF rows = <<>> THEN <<>>
    ELSE LET r == Head(rows)
         IN  <<[c \in DOMAIN r |-> IF c # "id" /\ IsInf(r[c]) THEN NaN ELSE r[c]]>>
             \o replace_inf(Tail(rows))

----------------------------------------------------------------------------
(* record finder *)

\* a sort on the metric alone
SortsBefore_MetricOnly(a, b, metric) == LtF(b[metric], a[metric])

\* tmp.sort_values([metric, "id"], ascending=[False, True]): a comes before b
SortsBefore(a, b, metric) ==
    \/ LtF(b[metric], a[metric])
    \/ a[metric] = b[metric] /\ IdLt(a.id, b.id)

RECURSIVE Insert(_, _, _)
Insert(r, sorted, metric) ==
    IF sorted = <<>> THEN <<r>>
    ELSE IF SortsBefore(r, Head(sorted), metric) THEN <<r>> \o sorted
    ELSE <<Head(sorted)>> \o Insert(r, Tail(sorted), metric)

RECURSIVE sort_values(_, _)
sort_values(rows, metric) ==
    IF rows = <<>> THEN <<>>
    ELSE Insert(rows[Len(rows)], sort_values(SubSeq(rows, 1, Len(rows) - 1), metric), metric)

\* a record finder that reports 0 for a metric nobody has a value for
_stable_record_ZeroWhenEmpty(df_, metric) ==
    IF metric \notin df_.columns THEN [id |-> NoId, value |-> NaN]
    ELSE LET tmp == SelectSeq(df_.rows, LAMBDA r : ~IsNaN(r[metric]))
         IN  IF tmp = <<>> THEN [id |-> NoId, value |-> Num(0)]
             ELSE LET top == sort_values(tmp, metric)[1]
                  IN  [id |-> top.id, value |-> top[metric]]

_stable_record(df_, metric) ==
    IF metric \notin df_.columns THEN [id |-> NoId, value |-> NaN]
    ELSE LET tmp == SelectSeq(df_.rows, LAMBDA r : ~IsNaN(r[metric]))
         IN  IF tmp = <<>> THEN [id |-> NoId, value |-> NaN]
             ELSE LET top == sort_values(tmp, metric)[1]
                  IN  [id |-> top.id, value |-> top[metric]]

RecordKeys == {"obp", "pab", "hr", "hrp", "h", "hp", "sb", "sbp", "so", "sop",
               "sopa", "bb", "bbp", "g"}

AllRecords(c) == [m \in RecordKeys |-> _stable_record(c, m)]

\* a return dict with league_count spelled with an underscore
Report_Underscore(s, b, recs) ==
    ("record.count" :> s.record_count) @@ ("complete.cases" :> s.complete_cases)
    @@ ("years" :> s.years) @@ ("player.count" :> s.player_count)
    @@ ("team.count" :> s.team_count) @@ ("league_count" :> s.league_count)
    @@ ("bb" :> b) @@ ("nl" :> LeagueSubset(b, "NL")) @@ ("al" :> LeagueSubset(b, "AL"))
    @@ ("records" :> recs)

\* the returned dict
Report(s, b, recs) ==
    ("record.count" :> s.record_count) @@ ("complete.cases" :> s.complete_cases)
    @@ ("years" :> s.years) @@ ("player.count" :> s.player_count)
    @@ ("team.count" :> s.team_count) @@ ("league.count" :> s.league_count)
    @@ ("bb" :> b) @@ ("nl" :> LeagueSubset(b, "NL")) @@ ("al" :> LeagueSubset(b, "AL"))
    @@ ("records" :> recs)

----------------------------------------------------------------------------
(* bbanalyze(filename), section by section *)

NoFrame == [columns |-> {}, rows |-> <<>>]

Init ==
    /\ pc = "read"
    /\ err = "none"
    /\ df = NoFrame
    /\ objcols = {}
    /\ summary = <<>>
    /\ bb = NoFrame
    /\ orig_cols = {}
    /\ nl = <<>>
    /\ al = <<>>
    /\ career = NoFrame
    /\ records = <<>>
    /\ result = <<>>

Raise(e) == pc' = "error" /\ err' = e

\* 1. df = pd.read_csv(filename), accidental index columns dropped
ReadCsv ==
    /\ pc = "read"
    /\ \E file \in Files :
          /\ df' = [columns |-> file.header \ bad_idx_cols(file.header),
                    rows |-> file.rows]
          /\ objcols' = {c \in NumCols \cap file.header :
                            \/ file.rows = <<>>
                            \/ \E i \in 1..Len(file.rows) : file.rows[i][c].tag = "str"}
    /\ pc' = "summary"
    /\ UNCHANGED <<err, summary, bb, orig_cols, nl, al, career, records, result>>

\* 2. summary information from the raw dataset
Summarize ==
    /\ pc = "summary"
    /\ IF "year" \notin df.columns
       THEN Raise("KeyError") /\ UNCHANGED summary
       ELSE IF IsNaN(SeriesMin(df.rows, "year"))
       THEN Raise("ValueError") /\ UNCHANGED summary
       ELSE IF ~({"id", "team", "lg"} \subseteq df.columns)
       THEN Raise("KeyError") /\ UNCHANGED summary
       ELSE \E keepsNA \in BOOLEAN :
               /\ summary' = [record_count |-> Len(df.rows),
                              complete_cases |-> Len(dropna(df.rows, df.columns)),
                              years |-> <<SeriesMin(df.rows, "year").n,
                                          SeriesMax(df.rows, "year").n>>,
                              player_count |-> nunique(df.rows, "id"),
                              team_count |-> nunique(df.rows, "team"),
                              league_count |-> league_count(df.rows, keepsNA)]
               /\ pc' = "clean"
               /\ err' = err
    /\ UNCHANGED <<df, objcols, bb, orig_cols, nl, al, career, records, result>>

\* 3. bb = df.dropna().copy(); _orig_cols = bb.columns.tolist()
CompleteCases ==
    /\ pc = "clean"
    /\ bb' = [columns |-> df.columns, rows |-> dropna(df.rows, df.columns)]
    /\ orig_cols' = df.columns
    /\ pc' = "derive"
    /\ UNCHANGED <<err, df, objcols, summary, nl, al, career, records, result>>

\* 5. obp and pab added to bb, then the assertion on the original columns
AddDerived ==
    /\ pc = "derive"
    /\ IF ~(Range(PabNum) \cup Range(PabDen) \subseteq bb.columns)
       THEN Raise("KeyError") /\ UNCHANGED bb
       ELSE IF bb.rows # <<>> /\ (\/ MixedDtype(ObpNum, objcols) \/ MixedDtype(ObpDen, objcols)
                                  \/ MixedDtype(PabNum, objcols) \/ MixedDtype(PabDen, objcols))
       THEN Raise("TypeError") /\ UNCHANGED bb
       ELSE LET rows == AddRowRates(bb.rows)
            IN  IF isna_any(rows, orig_cols \cap Schema)
                THEN Raise("AssertionError") /\ UNCHANGED bb
                ELSE /\ bb' = [columns |-> orig_cols \cup {"obp", "pab"}, rows |-> rows]
                     /\ pc' = "subsets"
                     /\ err' = err
    /\ UNCHANGED <<df, objcols, summary, orig_cols, nl, al, career, records, result>>

\* 6. the NL and AL subsets
Subsets ==
    /\ pc = "subsets"
    /\ nl' = LeagueSubset(bb, "NL")
    /\ al' = LeagueSubset(bb, "AL")
    /\ pc' = "career"
    /\ UNCHANGED <<err, df, objcols, summary, bb, orig_cols, career, records, result>>

\* 7. career totals of the players with 50 or more career at-bats
CareerTotals ==
    /\ pc = "career"
    /\ career' = [columns |-> StatCols, rows |-> CareerTotalsOf(bb.rows)]
    /\ pc' = "rates"
    /\ UNCHANGED <<err, df, objcols, summary, bb, orig_cols, nl, al, records, result>>

\* 8. career rate metrics
CareerRates ==
    /\ pc = "rates"
    /\ career' = [columns |-> StatCols \cup RateCols,
                  rows |-> replace_inf(AddCareerRates(career.rows))]
    /\ pc' = "records"
    /\ UNCHANGED <<err, df, objcols, summary, bb, orig_cols, nl, al, records, result>>

\* 10. the fourteen records
FindRecords ==
    /\ pc = "records"
    /\ records' = AllRecords(career)
    /\ pc' = "assemble"
    /\ UNCHANGED <<err, df, objcols, summary, bb, orig_cols, nl, al, career, result>>

\* 11. the return dict
Assemble ==
    /\ pc = "assemble"
    /\ result' = Report(summary, bb, records)
    /\ pc' = "done"
    /\ UNCHANGED <<err, df, objcols, summary, bb, orig_cols, nl, al, career, records>>

Next ==
    \/ ReadCsv
    \/ Summarize
    \/ CompleteCases
    \/ AddDerived
    \/ Subsets
    \/ CareerTotals
    \/ CareerRates
    \/ FindRecords
    \/ Assemble

Spec == Init /\ [][Next]_vars

----------------------------------------------------------------------------
(* properties *)

Returned == pc = "done"

DerivedCols == {"obp", "pab"}

TopKeys == {"record.count", "complete.cases", "years", "player.count",
            "team.count", "league.count", "bb", "nl", "al", "records"}

PlayersOf(rows) == {rows[i].id : i \in 1..Len(rows)}

RECURSIVE TotalFrom(_, _, _, _)
TotalFrom(rows, id, c, i) ==
    IF i > Len(rows) THEN Num(0)
    ELSE IF rows[i].id = id THEN Add(rows[i][c], TotalFrom(rows, id, c, i + 1))
    ELSE TotalFrom(rows, id, c, i + 1)

Total(rows, id, c) == TotalFrom(rows, id, c, 1)

Qualifiers(rows) ==
    {id \in PlayersOf(rows) :
        LET ab == Total(rows, id, "ab")
        IN  ~IsNaN(ab) /\ ~LtF(ab, Num(MinCareerAB))}

Quotient(n, d) ==
    LET q == Div(n, d) IN IF IsFinite(q) THEN q ELSE NaN

ExpectedMetric(rows, id, m) ==
    LET T(c) == Total(rows, id, c)
        onbase == Add(Add(T("h"), T("bb")), T("hbp"))
        chances == Add(Add(T("ab"), T("bb")), T("hbp"))
        sacs == Add(T("sf"), T("sh"))
    IN  CASE m = "obp" -> Quotient(onbase, chances)
          [] m = "pab" -> Quotient(Add(onbase, sacs), Add(chances, sacs))
          [] m = "hrp" -> Quotient(T("hr"), T("ab"))
          [] m = "hp" -> Quotient(T("h"), T("ab"))
          [] m = "sbp" -> Quotient(T("sb"), T("ab"))
          [] m = "sop" -> Quotient(T("so"), T("ab"))
          [] m = "sopa" -> Quotient(T("so"), Add(chances, sacs))
          [] m = "bbp" -> Quotient(T("bb"), T("ab"))
          [] OTHER -> T(m)

\* the non-missing values of a metric among the qualifying players
MetricValues(rows, m) ==
    {v \in {ExpectedMetric(rows, id, m) : id \in Qualifiers(rows)} : ~IsNaN(v)}

ExpectedValue(rows, m) ==
    LET vs == MetricValues(rows, m)
    IN  IF vs = {} THEN NaN ELSE CHOOSE v \in vs : \A w \in vs : ~LtF(v, w)

FourteenMetrics == {"obp", "pab", "hr", "hrp", "h", "hp", "sb", "sbp", "so",
                    "sop", "sopa", "bb", "bbp", "g"}

\* C2: for each of the fourteen metrics the value of the returned Record
\* Entry is the maximum non-missing value of the metric over the Career
\* Totals re-derived from the returned bb, and not-a-number when there is
\* no such value.
C2_RecordValueIsCareerMax ==
    Returned =>
        \A m \in FourteenMetrics :
            result.records[m].value = ExpectedValue(result.bb.rows, m)

\* a Report whose sopa record differs from its sop record and whose
\* home-run record is a sum over two seasons
C2_Witness ==
    /\ Returned
    /\ result.records["sopa"].id # NoId
    /\ result.records["sopa"].value # result.records["sop"].value
    /\ \E i \in 1..Len(result.bb.rows) :
          /\ result.bb.rows[i].id = result.records["hr"].id
          /\ result.bb.rows[i].hr # result.records["hr"].value

\* the Career Totals, with rates, of a Cleaned Table
CareerOf(rows) ==
    [columns |-> StatCols \cup RateCols,
     rows |-> replace_inf(AddCareerRates(CareerTotalsOf(rows)))]

\* the orderings of a table
Orderings(rows) ==
    {[i \in 1..Len(rows) |-> rows[f[i]]] :
        f \in {g \in [1..Len(rows) -> 1..Len(rows)] :
                  \A i, j \in 1..Len(rows) : g[i] = g[j] => i = j}}

FindsSame(c, recs) == \A m \in DOMAIN recs : _stable_record(c, m) = recs[m]

\* C3: for every metric the Record Finder returns the same (identity,
\* value) pair whatever the order of the Career Totals rows and whatever
\* the order of the input rows, and the identity it returns is the
\* smallest among the players that hold the maximum non-missing value.
C3_TieBreakDeterminism ==
    pc = "assemble" =>
        /\ DOMAIN records = FourteenMetrics
        /\ \A p \in Orderings(career.rows) :
              FindsSame([career EXCEPT !.rows = p], records)
        /\ \A p \in Orderings(bb.rows) : FindsSame(CareerOf(p), records)
        /\ \A m \in FourteenMetrics : \A i \in 1..Len(career.rows) :
              LET r == career.rows[i]
                  e == records[m]
              IN  ~IsNaN(r[m]) =>
                    /\ e.id # NoId
                    /\ ~LtF(e.value, r[m])
                    /\ r[m] = e.value => ~IdLt(r.id, e.id)

\* two players tied at the career maximum of home runs, the larger id first
\* in the Cleaned Table, and the record goes to the smaller id
C3_Witness ==
    /\ pc = "assemble"
    /\ Len(career.rows) = 2
    /\ career.rows[1].hr = career.rows[2].hr
    /\ bb.rows[1].id = "p3"
    /\ records["hr"].id = "p1"

\* C4: the winning identity of every Record Entry, when present, is a
\* player whose at-bats summed over the rows of the returned bb are at
\* least 50.
C4_WinnersReachThreshold ==
    Returned =>
        \A m \in FourteenMetrics :
            LET w == result.records[m].id
                ab == Total(result.bb.rows, w, "ab")
            IN  w # NoId =>
                  /\ w \in PlayersOf(result.bb.rows)
                  /\ ~IsNaN(ab)
                  /\ ~LtF(ab, Num(MinCareerAB))

\* a Report whose home-run record is held with fewer home runs than a
\* player with under 50 at-bats has
C4_Witness ==
    /\ Returned
    /\ result.records["hr"].id # NoId
    /\ \E id \in PlayersOf(result.bb.rows) :
          /\ LtF(Total(result.bb.rows, id, "ab"), Num(MinCareerAB))
          /\ LtF(result.records["hr"].value, Total(result.bb.rows, id, "hr"))

\* C5: in the returned Report the rows of bb with league code "NL" are in
\* nl.dat and not in al.dat, those with "AL" are in al.dat and not in
\* nl.dat, rows with any other code are in neither, and players and teams
\* of each subset count its distinct player ids and teams.
C5_LeaguePartition ==
    Returned =>
        LET NLrows == Range(result.nl.dat.rows)
            ALrows == Range(result.al.dat.rows)
        IN  /\ \A i \in 1..Len(result.bb.rows) :
                  LET r == result.bb.rows[i]
                  IN  /\ r \in NLrows <=> r.lg = "NL"
                      /\ r \in ALrows <=> r.lg = "AL"
            /\ NLrows \cup ALrows \subseteq Range(result.bb.rows)
            /\ Len(result.nl.dat.rows) =
                  Cardinality({i \in 1..Len(result.bb.rows) : result.bb.rows[i].lg = "NL"})
            /\ Len(result.al.dat.rows) =
                  Cardinality({i \in 1..Len(result.bb.rows) : result.bb.rows[i].lg = "AL"})
            /\ result.nl.players = Cardinality({r.id : r \in NLrows})
            /\ result.nl.teams = Cardinality({r.team : r \in NLrows})
            /\ result.al.players = Cardinality({r.id : r \in ALrows})
            /\ result.al.teams = Cardinality({r.team : r \in ALrows})

\* a Report over a National League row and a row of a third league
C5_Witness ==
    /\ Returned
    /\ \E i, j \in 1..Len(result.bb.rows) :
          /\ result.bb.rows[i].lg = "NL"
          /\ result.bb.rows[j].lg = "FL"
    /\ Len(result.nl.dat.rows) = 1
    /\ result.nl.players = 1

\* C6: league.count is the number of distinct non-empty league codes of
\* the raw table; rows whose league code is empty or missing add no
\* category to it.
C6_LeagueCountSkipsMissing ==
    Returned =>
        result["league.count"] =
            Cardinality({df.rows[i].lg : i \in 1..Len(df.rows)} \ {NA, ""})

RowRatesAdded == pc \in {"subsets", "career", "rates", "records", "assemble", "done"}
CareerRatesAdded == pc \in {"records", "assemble", "done"}

IsZero(v) == IsFinite(v) /\ v.n = 0

\* C7: wherever a denominator is 0 (0/0 included) Safe Division leaves the
\* missing-value marker and the pipeline raises nothing for it; no rate it
\* computes, per row or per career, is infinite; and a row with a missing
\* obp keeps every original column populated.
C7_DivisionSafety ==
    /\ RowRatesAdded =>
          \A i \in 1..Len(bb.rows) :
              LET r == bb.rows[i]
              IN  /\ IsZero(SumCells(r, ObpDen)) => IsNaN(r.obp)
                  /\ IsZero(SumCells(r, PabDen)) => IsNaN(r.pab)
                  /\ ~IsInf(r.obp) /\ ~IsInf(r.pab)
                  /\ \A c \in orig_cols \cap Schema : ~IsNA(c, r[c])
    /\ CareerRatesAdded =>
          \A i \in 1..Len(career.rows) : \A c \in RateCols :
              ~IsInf(career.rows[i][c])
    /\ pc = "error" =>
          \/ objcols # {}
          \/ ~(Schema \subseteq df.columns)
          \/ \A i \in 1..Len(df.rows) : IsNaN(df.rows[i].year)

\* Scenario B beside a row whose numerator is positive over a zero
\* denominator: both get a missing obp and keep their original columns
C7_Witness ==
    /\ pc = "subsets"
    /\ Len(bb.rows) = 2
    /\ IsZero(bb.rows[1].ab) /\ IsZero(bb.rows[1].bb) /\ IsZero(bb.rows[1].hbp)
    /\ IsZero(bb.rows[1].h) /\ IsNaN(bb.rows[1].obp)
    /\ IsZero(SumCells(bb.rows[2], ObpDen)) /\ ~IsZero(SumCells(bb.rows[2], ObpNum))
    /\ IsNaN(bb.rows[2].obp)

\* C8: the returned Report has exactly the ten top-level keys, and its
\* records has exactly the fourteen metric keys, each an entry with an id
\* field and a value field.
C8_KeySets ==
    Returned =>
        /\ DOMAIN result = TopKeys
        /\ DOMAIN result.records = FourteenMetrics
        /\ \A m \in FourteenMetrics : DOMAIN result.records[m] = {"id", "value"}
        /\ DOMAIN result.nl = {"dat", "players", "teams"}
        /\ DOMAIN result.al = {"dat", "players", "teams"}

\* a Report over a full table, with a holder of the games record
C8_Witness ==
    /\ Returned
    /\ result.records["g"].id # NoId
    /\ result["record.count"] = MaxRows

\* an unparseable value in a counting-statistic field, or a required
\* column missing from the header
Malformed ==
    /\ pc # "read"
    /\ \/ \E i \in 1..Len(df.rows) : \E c \in StatCols : df.rows[i][c].tag = "str"
       \/ ~(Schema \subseteq df.columns)

\* C9: with an unparseable value in a counting-statistic field, or a
\* required column missing, the pipeline raises no error, the affected row
\* is dropped during cleaning, and a Report is produced from the rest.
C9_MalformedInputAbsorbed ==
    Malformed =>
        /\ pc # "error"
        /\ RowRatesAdded =>
              \A i \in 1..Len(bb.rows) : \A c \in StatCols : bb.rows[i][c].tag # "str"

====
